---- MODULE Spec2Model ----
(***************************************************************************)
(* mark2 Manager (src/mk2/manager.py): the built-in event handlers, the    *)
(* line classifiers and the event dispatcher they are registered on.       *)
(*                                                                         *)
(* Text is a sequence of atoms (an atom is a run of characters, "\n" is    *)
(* the newline atom).  A regular expression is a sequence of character     *)
(* classes with named groups, matched the way re.match does: anchored at   *)
(* the start, free at the end.                                             *)
(*                                                                         *)
(* The module mk2.events (EventDispatcher, EventPriority, the event        *)
(* classes) is imported by manager.py; its dispatch rules are modelled     *)
(* from the specification's section 4.1.                                   *)
(***************************************************************************)
EXTENDS Integers, Sequences, FiniteSets, TLC

----------------------------------------------------------------------------
(* Bounds of the model *)

\* how many dispatch chains may be suspended on a Hook handler at once
MaxParked == 1

\* how deep dispatches may nest before a plugin handler stops raising
MaxDepth == 4

----------------------------------------------------------------------------
(* Text *)

NL == "\n"

Usernames == {"Alice", "Bob"}

Users == {"op"}

\* unicode(line).split(u"\n"): the segments between newline atoms, in order
RECURSIVE SplitFrom(_, _, _)
SplitFrom(s, i, cur) ==
    IF i > Len(s) THEN <<cur>>
    ELSE IF s[i] = NL THEN <<cur>> \o SplitFrom(s, i + 1, <<>>)
    ELSE SplitFrom(s, i + 1, Append(cur, s[i]))

Split(s) == SplitFrom(s, 1, <<>>)

\* line.startswith(prefix) for a one-atom prefix
StartsWith(s, a) == Len(s) >= 1 /\ s[1] = a

\* str(x) of a captured or supplied username: the text itself, "None" for None
NoneVal == "<None>"

Str(x) == IF x = NoneVal THEN "None" ELSE x

\* "%s" % x for a text x, an absent one (<<NoneVal>>) giving "None"
Format(x) == [i \in DOMAIN x |-> Str(x[i])]

\* a pattern: character classes by position, and the position of each named group
Pat(cls, grp) == [cls |-> cls, grp |-> grp]

NoGroups == [g \in {} |-> 1]

\* re.match(pattern, text): anchored at the start only
ReMatch(p, s) ==
    /\ Len(s) >= Len(p.cls)
    /\ \A i \in 1..Len(p.cls) : s[i] \in p.cls[i]

\* m.groupdict()
GroupDict(p, s) == [g \in DOMAIN p.grp |-> s[p.grp[g]]]

----------------------------------------------------------------------------
(* Events (mk2.events): a kind tag and the constructor's keyword arguments *)

ServerOutput(data) ==
    [kind |-> "ServerOutput", line |-> <<"[INFO] ">> \o data, time |-> "t1",
     level |-> "INFO", data |-> data]

\* events.Console(**k): k holds line and whatever keywords the caller passed
Console(line, k) == [kind |-> "Console", line |-> line, kw |-> k]

NoKw == [g \in {} |-> ""]

ServerInput(line, pc) == [kind |-> "ServerInput", line |-> line, parse_colors |-> pc]

FatalError(reason) == [kind |-> "FatalError", reason |-> reason]

Hook(line) == [kind |-> "Hook", line |-> line]

UserInput(line, user) == [kind |-> "UserInput", line |-> line, user |-> user]

UserAttach(user) == [kind |-> "UserAttach", user |-> user]

UserDetach(user) == [kind |-> "UserDetach", user |-> user]

StatPlayers(l) == [kind |-> "StatPlayers", players |-> l]

\* e_ty(**groupdict), PlayerDeath(cause=, format=, **groupdict)
FromGroups(e_ty, fixed, groups) == [kind |-> e_ty] @@ fixed @@ groups

----------------------------------------------------------------------------
(* Configuration and language data read at startup *)

\* self.config['mark2.regex.' + key]
ConfigRegex ==
    [join |-> Pat(<<{"J"}, Usernames>>, [username |-> 2]),
     quit |-> Pat(<<{"Q"}, Usernames>>, [username |-> 2]),
     chat |-> Pat(<<{"C"}, Usernames, {"hi"}>>, [username |-> 2, message |-> 3])]

\* deaths = list(self.lang.get_deaths()): (name, (pattern, format)), in table order
deaths ==
    << [name |-> "fall", pattern |-> Pat(<<{"D"}, Usernames>>, [victim |-> 2]),
        format |-> "fell"],
       [name |-> "generic", pattern |-> Pat(<<{"D", "K"}, Usernames>>, [victim |-> 2]),
        format |-> "died"] >>

----------------------------------------------------------------------------
(* Registrations *)

Reg(cb, ty, pri, hasp, pat, ety) ==
    [callback |-> cb, type |-> ty, priority |-> pri, has_pattern |-> hasp,
     pattern |-> pat, e_ty |-> ety]

AnyText == Pat(<<>>, NoGroups)

\* the registrations made by really_start, in the order it makes them
BuiltinRegs ==
    << Reg("handle_server_output",  "ServerOutput",  "MONITOR", TRUE,  AnyText, ""),
       Reg("handle_console",        "Console",       "MONITOR", FALSE, AnyText, ""),
       Reg("handle_fatal",          "FatalError",    "HIGH",    FALSE, AnyText, ""),
       Reg("handle_server_started", "ServerStarted", "MONITOR", FALSE, AnyText, ""),
       Reg("handle_user_attach",    "UserAttach",    "MONITOR", FALSE, AnyText, ""),
       Reg("handle_user_detach",    "UserDetach",    "MONITOR", FALSE, AnyText, ""),
       Reg("handle_user_input",     "UserInput",     "MONITOR", FALSE, AnyText, ""),
       Reg("handle_player_join",    "PlayerJoin",    "MONITOR", FALSE, AnyText, ""),
       Reg("handle_player_quit",    "PlayerQuit",    "MONITOR", FALSE, AnyText, ""),
       Reg("handle_server_stopped", "ServerStopped", "MONITOR", FALSE, AnyText, ""),
       Reg("handler", "ServerOutput", "DEFAULT", TRUE, AnyText, ""),
       Reg("lambda",  "ServerOutput", "DEFAULT", TRUE, ConfigRegex.join, "PlayerJoin"),
       Reg("lambda",  "ServerOutput", "DEFAULT", TRUE, ConfigRegex.quit, "PlayerQuit"),
       Reg("lambda",  "ServerOutput", "DEFAULT", TRUE, ConfigRegex.chat, "PlayerChat") >>

\* the registrations the loaded plugins make (load_plugins runs after the above)
PluginRegs ==
    << Reg("plugin_a", "Hook", "MONITOR", TRUE, Pat(<<{"~"}, {"a", "b"}>>, NoGroups), ""),
       Reg("plugin_b", "Hook", "HIGH",    TRUE, Pat(<<{"~"}, {"a"}>>, NoGroups), ""),
       Reg("plugin_c", "Hook", "MONITOR", TRUE, Pat(<<{"~"}, {"a"}>>, NoGroups), ""),
       Reg("plugin_f", "FatalError", "CRITICAL", FALSE, AnyText, ""),
       Reg("plugin_w", "Console", "MONITOR", FALSE, AnyText, "") >>

Registered == BuiltinRegs \o PluginRegs

VARIABLE plugins  \* Manager.plugins: the registrations of the plugins loaded so far

\* the registrations of the plugin callback cb
PluginsOf(cb) == {r \in DOMAIN Registered : Registered[r].callback = cb}

\* a console forwarder that is not part of the usual plugin set
Forwarder == PluginsOf("plugin_w")

\* what load_plugins loads in a usual installation
UsualPlugins == (DOMAIN Registered \ (1..Len(BuiltinRegs))) \ Forwarder

\* what a plugin callback may do when invoked
PluginOutcomes(cb) ==
    CASE cb = "plugin_a" -> {"true", "false", "raise"}
      [] cb = "plugin_b" -> {"true", "false", "suspend"}
      [] cb = "plugin_c" -> {"true", "false"}
      [] cb = "plugin_f" -> {"none", "true", "raise"}
      [] cb = "plugin_w" -> {"none", "raise"}
      [] OTHER -> {}

----------------------------------------------------------------------------
(* Dispatcher (mk2.events.EventDispatcher, from the specification 4.1) *)

PriorityOrder == <<"CRITICAL", "HIGH", "DEFAULT", "MONITOR">>

Rank(p) == CHOOSE i \in 1..Len(PriorityOrder) : PriorityOrder[i] = p

\* the text a registration's pattern is matched against
MatchField(e) == IF e.kind = "ServerOutput" THEN e.data ELSE e.line

Matches(r, e) ==
    /\ Registered[r].type = e.kind
    /\ Registered[r].has_pattern => ReMatch(Registered[r].pattern, MatchField(e))

\* the registrations made so far: those of really_start, and those of the
\* plugins that load_plugins has loaded
Active == 1..Len(BuiltinRegs) \cup plugins

Matching(e) == {r \in Active : Matches(r, e)}

\* mutant: within a priority the registration made last is called first
Before_LastFirst(r, q) ==
    \/ Rank(Registered[r].priority) < Rank(Registered[q].priority)
    \/ Rank(Registered[r].priority) = Rank(Registered[q].priority) /\ r > q

\* ascending priority, registration order within a priority
Before(r, q) ==
    \/ Rank(Registered[r].priority) < Rank(Registered[q].priority)
    \/ Rank(Registered[r].priority) = Rank(Registered[q].priority) /\ r < q

\* mutant: registration order alone, the priority ignored
RECURSIVE InOrder_ByRegistration(_)
InOrder_ByRegistration(S) ==
    IF S = {} THEN <<>>
    ELSE LET m == CHOOSE r \in S : \A q \in S : r <= q
         IN  <<m>> \o InOrder_ByRegistration(S \ {m})

RECURSIVE InOrder(_)
InOrder(S) ==
    IF S = {} THEN <<>>
    ELSE LET m == CHOOSE r \in S : \A q \in S \ {r} : Before(r, q)
         IN  <<m>> \o InOrder(S \ {m})

----------------------------------------------------------------------------
(* State *)

VARIABLES
    players,     \* Manager.players
    started,     \* Manager.started
    properties,  \* Manager.properties, the mirrored server.properties snapshot
    run,         \* the dispatch chain the reactor is running: its call stack of
                 \* dispatches and what it has done so far
    parked,      \* the chains suspended on a handler that has not resolved yet
    joined,      \* the usernames whose PlayerJoin was dispatched and not followed
                 \* by their PlayerQuit or by a ServerStopped
    lastStat,    \* the players list of the most recent StatPlayers dispatch
    announced    \* how many Console events "mark2 started." were dispatched

vars == <<players, started, properties, run, parked, joined, lastStat, announced, plugins>>

NoChain == [stack |-> <<>>, out |-> <<>>]

Top(c) == c.stack[Len(c.stack)]

SetTop(c, f) == [c EXCEPT !.stack[Len(c.stack)] = f]

Log(c, x) == [c EXCEPT !.out = Append(c.out, x)]

\* one in-flight dispatch(event): the matching registrations still to invoke, and
\* the position inside the handler that is running
Frame(id, e) ==
    [id |-> id, ev |-> e, todo |-> InOrder(Matching(e)), cur |-> 0, prog |-> <<>>,
     handled |-> FALSE, failed |-> FALSE, ret |-> "none"]

\* self.events.dispatch(e), called by dispatch number `by` (0: from outside)
Dispatch(c, e, by) ==
    LET id == Len(c.out) + 1
    IN  [stack |-> Append(c.stack, Frame(id, e)),
         out   |-> Append(c.out, [t |-> "dispatch", id |-> id, ev |-> e, by |-> by])]

\* the dispatcher is about to call the next registration of the top dispatch
Ready(f) == f.prog = <<>> /\ ~f.failed

\* mutant: a handler returning true cuts the dispatch short whatever the event
Stopped_AnyKind(f) == f.todo = <<>> \/ f.handled

\* mutant: a Hook dispatch goes on after a handler returned true
Stopped_NoShortCircuit(f) == f.todo = <<>>

Stopped(f) == f.todo = <<>> \/ (f.ev.kind = "Hook" /\ f.handled)

Calls(cb) ==
    /\ run.stack # <<>>
    /\ Ready(Top(run))
    /\ ~Stopped(Top(run))
    /\ Registered[Head(Top(run).todo)].callback = cb

\* the chain after the dispatcher called the next registration, whose body is `body`
Invoked(c, body) ==
    LET f == Top(c)
        r == Head(f.todo)
    IN  SetTop(Log(c, [t |-> "invoke", id |-> f.id, cb |-> r]),
               [f EXCEPT !.todo = Tail(f.todo), !.cur = r, !.prog = body])

Op(name) == [op |-> name]

Call(e) == [op |-> "dispatch", ev |-> e]

\* mutant: the text is dispatched as it is, in one Console event
console_Unsplit(line, k) == <<Call(Console(line, k))>>

\* Manager.console(line, **k): one Console dispatch per newline-separated segment
console(line, k) == [i \in 1..Len(Split(line)) |-> Call(Console(Split(line)[i], k))]

\* Manager.shutdown()
shutdown == <<Op("shutdown")>>

\* list(self.players): the members in some order
ListsOf(S) ==
    {l \in [1..Cardinality(S) -> S] : \A i, j \in 1..Cardinality(S) : l[i] = l[j] => i = j}

Range(l) == {l[i] : i \in DOMAIN l}

----------------------------------------------------------------------------
(* What is recorded when an event is dispatched *)

JoinedAfter(e) ==
    CASE e.kind = "PlayerJoin"    -> joined \cup {e.username}
      [] e.kind = "PlayerQuit"    -> joined \ {e.username}
      [] e.kind = "ServerStopped" -> {}
      [] OTHER -> joined

StartedLine == <<"mark2 started.">>

Observe(e) ==
    /\ joined' = JoinedAfter(e)
    /\ lastStat' = IF e.kind = "StatPlayers" THEN [sent |-> TRUE, players |-> e.players]
                   ELSE lastStat
    /\ announced' = IF e.kind = "Console" /\ e.line = StartedLine /\ announced < 2
                    THEN announced + 1 ELSE announced

NoObserve == UNCHANGED <<joined, lastStat, announced>>

----------------------------------------------------------------------------
(* Inputs *)

OutputLines ==
    {<<"J", u>> : u \in Usernames} \cup {<<"Q", u>> : u \in Usernames}
    \cup {<<"C", "Alice", "hi">>, <<"D", "Alice">>, <<"K", "Bob">>, <<"x">>}

HookLines == {<<"~", "a">>, <<"~", "b">>, <<"~", "c">>}

InputLines == HookLines \cup {<<"#", "x">>, <<"say">>, <<"say", NL, "again">>}

\* what the line source, the remote console and the command layer dispatch
Injectable ==
    {ServerOutput(d) : d \in OutputLines}
    \cup {[kind |-> "PlayerJoin", username |-> u] : u \in Usernames}
    \cup {[kind |-> "PlayerQuit", username |-> u] : u \in Usernames}
    \cup {[kind |-> "ServerStopped"], [kind |-> "ServerStarted"]}
    \cup {FatalError(<<"no jar">>)}
    \cup {UserInput(l, u) : l \in InputLines, u \in Users}
    \cup {UserAttach(u) : u \in Users} \cup {UserDetach(u) : u \in Users}
    \cup {Hook(l) : l \in HookLines}

\* what properties.load finds in server.properties: a snapshot, or nothing
Loadable == {"none", "v1", "v2"}

----------------------------------------------------------------------------
(* The reactor hands an event to dispatch *)

Inject(e) ==
    /\ run.stack = <<>>
    /\ run' = Dispatch(NoChain, e, 0)
    /\ Observe(e)
    /\ UNCHANGED <<players, started, properties, parked, plugins>>

----------------------------------------------------------------------------
(* Built-in handlers *)

\* mutant: the Console event is given the parsed data as its line
handle_server_output_DataAsLine ==
    /\ Calls("handle_server_output")
    /\ LET event == Top(run).ev
       IN  run' = Invoked(run, <<Call(Console(event.data,
                     [source |-> "server", time |-> event.time,
                      level |-> event.level, data |-> event.data]))>>)
    /\ NoObserve
    /\ UNCHANGED <<players, started, properties, parked, plugins>>

handle_server_output ==
    /\ Calls("handle_server_output")
    /\ LET event == Top(run).ev
       IN  run' = Invoked(run, <<Call(Console(event.line,
                     [source |-> "server", time |-> event.time,
                      level |-> event.level, data |-> event.data]))>>)
    /\ NoObserve
    /\ UNCHANGED <<players, started, properties, parked, plugins>>

\* log.msg(line, system="mark2") for each line of the event's text
RECURSIVE LogLines(_, _)
LogLines(c, lines) ==
    IF lines = <<>> THEN c
    ELSE LogLines(Log(c, [t |-> "log", line |-> Head(lines)]), Tail(lines))

handle_console ==
    /\ Calls("handle_console")
    /\ run' = LogLines(Invoked(run, <<>>), Split(Top(run).ev.line))
    /\ NoObserve
    /\ UNCHANGED <<players, started, properties, parked, plugins>>

\* mutant: shutdown is initiated before the reason is sent to the console
handle_fatal_ShutdownFirst ==
    /\ Calls("handle_fatal")
    /\ LET event == Top(run).ev
           s == <<"fatal error: ">> \o Format(event.reason)
       IN  run' = Invoked(run, shutdown \o console(s, [kind |-> "error"]))
    /\ NoObserve
    /\ UNCHANGED <<players, started, properties, parked, plugins>>

handle_fatal ==
    /\ Calls("handle_fatal")
    /\ LET event == Top(run).ev
           s == <<"fatal error: ">> \o Format(event.reason)
       IN  run' = Invoked(run, console(s, [kind |-> "error"]) \o shutdown)
    /\ NoObserve
    /\ UNCHANGED <<players, started, properties, parked, plugins>>

\* mutant: the snapshot is reloaded only together with the first announcement
handle_server_started_OnlyFirst ==
    /\ Calls("handle_server_started")
    /\ \E properties_ \in Loadable :
         /\ properties' = IF properties_ # "none" /\ ~started THEN properties_
                          ELSE properties
         /\ run' = Log(Invoked(run, IF ~started
                                    THEN console(StartedLine, NoKw) \o <<Op("set_started")>>
                                    ELSE <<>>),
                        [t |-> "load", val |-> properties_, old |-> properties])
    /\ NoObserve
    /\ UNCHANGED <<players, started, parked, plugins>>

\* mutant: a server that has started is taken to have no players
handle_server_started_Resets ==
    /\ Calls("handle_server_started")
    /\ \E properties_ \in Loadable :
         /\ properties' = IF properties_ # "none" THEN properties_ ELSE properties
         /\ run' = Log(Invoked(run, IF ~started
                                    THEN console(StartedLine, NoKw) \o <<Op("set_started")>>
                                    ELSE <<>>),
                        [t |-> "load", val |-> properties_, old |-> properties])
    /\ players' = {}
    /\ NoObserve
    /\ UNCHANGED <<started, parked, plugins>>

handle_server_started ==
    /\ Calls("handle_server_started")
    /\ \E properties_ \in Loadable :
         /\ properties' = IF properties_ # "none" THEN properties_ ELSE properties
         /\ run' = Log(Invoked(run, IF ~started
                                    THEN console(StartedLine, NoKw) \o <<Op("set_started")>>
                                    ELSE <<>>),
                        [t |-> "load", val |-> properties_, old |-> properties])
    /\ NoObserve
    /\ UNCHANGED <<players, started, parked, plugins>>

handle_user_attach ==
    /\ Calls("handle_user_attach")
    /\ run' = Invoked(run, console(<<Top(run).ev.user, " attached">>,
                                   [kind |-> "joinpart"]))
    /\ NoObserve
    /\ UNCHANGED <<players, started, properties, parked, plugins>>

handle_user_detach ==
    /\ Calls("handle_user_detach")
    /\ run' = Invoked(run, console(<<Top(run).ev.user, " detached">>,
                                   [kind |-> "joinpart"]))
    /\ NoObserve
    /\ UNCHANGED <<players, started, properties, parked, plugins>>

\* mutant: there is no branch for the comment prefix
handle_user_input_NoComment ==
    /\ Calls("handle_user_input")
    /\ LET event == Top(run).ev
       IN  run' = Invoked(run,
                console(event.line, [user |-> event.user, source |-> "user"])
                \o (IF StartsWith(event.line, "~")
                    THEN <<Call(Hook(event.line)), Op("if_not_handled")>>
                    ELSE <<Call(ServerInput(event.line, TRUE))>>))
    /\ NoObserve
    /\ UNCHANGED <<players, started, properties, parked, plugins>>

\* mutant: the line is sent on as send() does, without parse_colors
handle_user_input_PlainSend ==
    /\ Calls("handle_user_input")
    /\ LET event == Top(run).ev
       IN  run' = Invoked(run,
                console(event.line, [user |-> event.user, source |-> "user"])
                \o (IF StartsWith(event.line, "~")
                    THEN <<Call(Hook(event.line)), Op("if_not_handled")>>
                    ELSE IF StartsWith(event.line, "#")
                    THEN <<>>
                    ELSE <<Call(ServerInput(event.line, FALSE))>>))
    /\ NoObserve
    /\ UNCHANGED <<players, started, properties, parked, plugins>>

\* mutant: the prefix tests are two separate ifs, a command line falls through
handle_user_input_FallsThrough ==
    /\ Calls("handle_user_input")
    /\ LET event == Top(run).ev
       IN  run' = Invoked(run,
                console(event.line, [user |-> event.user, source |-> "user"])
                \o (IF StartsWith(event.line, "~")
                    THEN <<Call(Hook(event.line)), Op("if_not_handled")>>
                    ELSE <<>>)
                \o (IF StartsWith(event.line, "#")
                    THEN <<>>
                    ELSE <<Call(ServerInput(event.line, TRUE))>>))
    /\ NoObserve
    /\ UNCHANGED <<players, started, properties, parked, plugins>>

handle_user_input ==
    /\ Calls("handle_user_input")
    /\ LET event == Top(run).ev
       IN  run' = Invoked(run,
                console(event.line, [user |-> event.user, source |-> "user"])
                \o (IF StartsWith(event.line, "~")
                    THEN <<Call(Hook(event.line)), Op("if_not_handled")>>
                    ELSE IF StartsWith(event.line, "#")
                    THEN <<>>
                    ELSE <<Call(ServerInput(event.line, TRUE))>>))
    /\ NoObserve
    /\ UNCHANGED <<players, started, properties, parked, plugins>>

handle_player_join ==
    /\ Calls("handle_player_join")
    /\ players' = players \cup {Str(Top(run).ev.username)}
    /\ \E l \in ListsOf(players') : run' = Invoked(run, <<Call(StatPlayers(l))>>)
    /\ NoObserve
    /\ UNCHANGED <<started, properties, parked, plugins>>

\* mutant: the list is taken before the user is discarded
handle_player_quit_Stale ==
    /\ Calls("handle_player_quit")
    /\ players' = players \ {Str(Top(run).ev.username)}
    /\ \E l \in ListsOf(players) : run' = Invoked(run, <<Call(StatPlayers(l))>>)
    /\ NoObserve
    /\ UNCHANGED <<started, properties, parked, plugins>>

handle_player_quit ==
    /\ Calls("handle_player_quit")
    /\ players' = players \ {Str(Top(run).ev.username)}
    /\ \E l \in ListsOf(players') : run' = Invoked(run, <<Call(StatPlayers(l))>>)
    /\ NoObserve
    /\ UNCHANGED <<started, properties, parked, plugins>>

\* mutant: the empty list is broadcast but the set is not cleared
handle_server_stopped_NoClear ==
    /\ Calls("handle_server_stopped")
    /\ players' = players
    /\ run' = Invoked(run, <<Call(StatPlayers(<<>>))>>)
    /\ NoObserve
    /\ UNCHANGED <<started, properties, parked, plugins>>

handle_server_stopped ==
    /\ Calls("handle_server_stopped")
    /\ players' = {}
    /\ run' = Invoked(run, <<Call(StatPlayers(<<>>))>>)
    /\ NoObserve
    /\ UNCHANGED <<started, properties, parked, plugins>>

\* mutant: no break, every matching entry dispatches
RECURSIVE DeathScan_NoBreak(_, _, _)
DeathScan_NoBreak(i, e, cause) ==
    IF i > Len(deaths) THEN <<>>
    ELSE IF ReMatch(deaths[i].pattern, e.data)
    THEN <<Call(FromGroups("PlayerDeath",
                           [cause |-> cause, format |-> deaths[i].format],
                           GroupDict(deaths[i].pattern, e.data)))>>
         \o DeathScan_NoBreak(i + 1, e, cause)
    ELSE DeathScan_NoBreak(i + 1, e, cause)

\* the death table walked from entry i on: the first match dispatches and breaks
RECURSIVE DeathScan(_, _, _)
DeathScan(i, e, cause) ==
    IF i > Len(deaths) THEN <<>>
    ELSE IF ReMatch(deaths[i].pattern, e.data)
    THEN <<Call(FromGroups("PlayerDeath",
                           [cause |-> cause, format |-> deaths[i].format],
                           GroupDict(deaths[i].pattern, e.data)))>>
    ELSE DeathScan(i + 1, e, cause)

\* the closure `handler` of really_start, registered on ServerOutput
handler ==
    /\ Calls("handler")
    /\ run' = Invoked(run, DeathScan(1, Top(run).ev, NoneVal))
    /\ NoObserve
    /\ UNCHANGED <<players, started, properties, parked, plugins>>

\* mutant: e_ty is not bound per registration, every lambda sees the last one
ChatLambda_LateBound(reg, e) ==
    <<Call(FromGroups("PlayerChat", NoKw, GroupDict(reg.pattern, e.data)))>>

\* lambda e, e_ty=e_ty: self.events.dispatch(e_ty(**e.match.groupdict()))
ChatLambda(reg, e) == <<Call(FromGroups(reg.e_ty, NoKw, GroupDict(reg.pattern, e.data)))>>

lambda ==
    /\ Calls("lambda")
    /\ run' = Invoked(run, ChatLambda(Registered[Head(Top(run).todo)], Top(run).ev))
    /\ NoObserve
    /\ UNCHANGED <<players, started, properties, parked, plugins>>

----------------------------------------------------------------------------
(* The steps of a running handler *)

Doing(name) ==
    /\ run.stack # <<>>
    /\ Top(run).prog # <<>>
    /\ Head(Top(run).prog).op = name

Rest(f) == [f EXCEPT !.prog = Tail(f.prog)]

\* the handler calls self.events.dispatch(...)
CallDispatch ==
    /\ Doing("dispatch")
    /\ LET f == Top(run)
           e == Head(f.prog).ev
       IN  /\ run' = Dispatch(SetTop(run, Rest(f)), e, f.id)
           /\ Observe(e)
    /\ UNCHANGED <<players, started, properties, parked, plugins>>

\* reactor.callInThread(lambda: os.kill(os.getpid(), signal.SIGINT))
CallShutdown ==
    /\ Doing("shutdown")
    /\ run' = SetTop(Log(run, [t |-> "shutdown", id |-> Top(run).id]), Rest(Top(run)))
    /\ NoObserve
    /\ UNCHANGED <<players, started, properties, parked, plugins>>

\* self.started = True
SetStarted ==
    /\ Doing("set_started")
    /\ started' = TRUE
    /\ run' = SetTop(run, Rest(Top(run)))
    /\ NoObserve
    /\ UNCHANGED <<players, properties, parked, plugins>>

\* if not handled: self.console("unknown command.")
IfNotHandled ==
    /\ Doing("if_not_handled")
    /\ LET f == Top(run)
       IN  run' = SetTop(run, [f EXCEPT !.prog =
                    IF f.ret # "true"
                    THEN console(<<"unknown command.">>, NoKw) \o Tail(f.prog)
                    ELSE Tail(f.prog)])
    /\ NoObserve
    /\ UNCHANGED <<players, started, properties, parked, plugins>>

----------------------------------------------------------------------------
(* Plugin handlers, the error sink and the end of a dispatch *)

\* the running handler of the top dispatch resolved with v
Returned(c, v) ==
    LET f == Top(c)
    IN  SetTop(Log(c, [t |-> "return", id |-> f.id, cb |-> f.cur, val |-> v]),
               [f EXCEPT !.handled = (f.handled \/ v = "true"),
                         !.failed = (v = "raise")])

PluginReturns ==
    /\ run.stack # <<>>
    /\ \E cb \in {Registered[r].callback : r \in DOMAIN Registered} :
         /\ Calls(cb)
         /\ \E v \in PluginOutcomes(cb) \ {"suspend"} :
              /\ v = "raise" => Len(run.stack) < MaxDepth
              /\ run' = Returned(Invoked(run, <<>>), v)
    /\ NoObserve
    /\ UNCHANGED <<players, started, properties, parked, plugins>>

\* mutant: the dispatcher does not wait for the suspended handler
PluginSuspends_NoWait ==
    /\ run.stack # <<>>
    /\ Len(parked) < MaxParked
    /\ \E cb \in {Registered[r].callback : r \in DOMAIN Registered} :
         /\ Calls(cb)
         /\ "suspend" \in PluginOutcomes(cb)
    /\ LET c == Invoked(run, <<>>)
       IN  run' = Log(c, [t |-> "suspend", id |-> Top(c).id, cb |-> Top(c).cur])
    /\ NoObserve
    /\ UNCHANGED <<players, started, properties, parked, plugins>>

PluginSuspends ==
    /\ run.stack # <<>>
    /\ Len(parked) < MaxParked
    /\ \E cb \in {Registered[r].callback : r \in DOMAIN Registered} :
         /\ Calls(cb)
         /\ "suspend" \in PluginOutcomes(cb)
    /\ LET c == Invoked(run, <<>>)
       IN  parked' = Append(parked,
                        Log(c, [t |-> "suspend", id |-> Top(c).id, cb |-> Top(c).cur]))
    /\ run' = NoChain
    /\ NoObserve
    /\ UNCHANGED <<players, started, properties, plugins>>

Without(q, i) == SubSeq(q, 1, i - 1) \o SubSeq(q, i + 1, Len(q))

\* the suspended handler of a parked chain resolves; `meanwhile` records that
\* another dispatch ran to its end while the chain was parked
Resolve(i, v) ==
    /\ run.stack = <<>>
    /\ i \in DOMAIN parked
    /\ run' = Returned(Log(parked[i], [t |-> "resume", meanwhile |-> run.out # <<>>]), v)
    /\ parked' = Without(parked, i)
    /\ NoObserve
    /\ UNCHANGED <<players, started, properties, plugins>>

\* the text handle_dispatch_error builds
ErrorText(event, callback) ==
    <<"An event handler threw an exception: ", NL,
      "  Callback: ", callback, NL,
      "  Event: ", NL,
      "    kind: ", event.kind, NL,
      "  Traceback">>

\* mutant: the error sink fails while it builds its text, the failure leaves
\* the dispatch and ends the chain
handle_dispatch_error_Fails ==
    /\ run.stack # <<>>
    /\ Top(run).failed
    /\ run' = [stack |-> <<>>, out |-> run.out]
    /\ NoObserve
    /\ UNCHANGED <<players, started, properties, parked, plugins>>

\* the dispatcher caught the handler's exception and calls the error sink
handle_dispatch_error ==
    /\ run.stack # <<>>
    /\ Top(run).failed
    /\ LET f == Top(run)
           o == ErrorText(f.ev, Registered[f.cur].callback)
       IN  run' = SetTop(Log(run, [t |-> "report", id |-> f.id, cb |-> f.cur]),
                         [f EXCEPT !.failed = FALSE, !.prog = console(o, NoKw)])
    /\ NoObserve
    /\ UNCHANGED <<players, started, properties, parked, plugins>>

Result(f) ==
    IF f.ev.kind = "Hook" THEN (IF f.handled THEN "true" ELSE "false") ELSE "none"

\* dispatch(event) is over: its result goes to the caller
DispatchReturn ==
    /\ run.stack # <<>>
    /\ Ready(Top(run))
    /\ Stopped(Top(run))
    /\ LET f == Top(run)
           n == Len(run.stack)
           below == SubSeq(run.stack, 1, n - 1)
       IN  run' = [stack |-> IF n = 1 THEN <<>>
                             ELSE [below EXCEPT ![n - 1].ret = Result(f)],
                   out |-> Append(run.out, [t |-> "result", id |-> f.id, val |-> Result(f)])]
    /\ NoObserve
    /\ UNCHANGED <<players, started, properties, parked, plugins>>

----------------------------------------------------------------------------
(* Specification *)

Init ==
    /\ players = {}
    /\ started = FALSE
    /\ properties = "v0"
    /\ run = NoChain
    /\ parked = <<>>
    /\ joined = {}
    /\ lastStat = [sent |-> FALSE, players |-> <<>>]
    /\ announced = 0
    /\ plugins = UsualPlugins

Next ==
    \/ \E e \in Injectable : Inject(e)
    \/ handle_server_output
    \/ handle_console
    \/ handle_fatal
    \/ handle_server_started
    \/ handle_user_attach
    \/ handle_user_detach
    \/ handle_user_input
    \/ handle_player_join
    \/ handle_player_quit
    \/ handle_server_stopped
    \/ handler
    \/ lambda
    \/ CallDispatch
    \/ CallShutdown
    \/ SetStarted
    \/ IfNotHandled
    \/ PluginReturns
    \/ PluginSuspends
    \/ \E i \in 1..MaxParked, v \in {"true", "false", "raise"} : Resolve(i, v)
    \/ handle_dispatch_error
    \/ DispatchReturn

Spec == Init /\ [][Next]_vars

----------------------------------------------------------------------------
(* Startup: Manager.startup() and really_start(), from construction on *)

ServerStart == [kind |-> "ServerStart"]

\* what properties.load finds for mark2.properties: nothing, a usable
\* configuration, or one whose mark2.log.rotate_mode is none of daily, off, size
Configs == {"none", "ok", "bad_rotate"}

\* self.services.find()
Services == <<"process", "user_server">>

\* traceback.format_exc(): the header, the exception, and a final newline
Traceback == <<"Traceback (most recent call last):", NL, "Error", NL>>

\* Manager.fatal_error(*a, **k): k['reason'] = a[0] if a else None
fatal_error(a, k) ==
    <<Call(FatalError(([reason |-> IF a # <<>> THEN a[1] ELSE <<NoneVal>>] @@ k).reason))>>

\* the except block of startup()
except == console(Traceback, [kind |-> "error"]) \o shutdown

\* really_start after load_config, with self.config and self.jar_file as given
AfterConfig(config, jar_file) ==
    <<[op |-> "start_logging", config |-> config], Op("chmod")>>
    \o console(<<"mark2 starting...">>, NoKw)
    \o (IF jar_file = NoneVal THEN <<Op("find_jar")>> ELSE <<>>)
    \o <<Op("load_lang"), Op("load_properties")>>
    \o [i \in 1..Len(Services) |-> [op |-> "load_service", name |-> Services[i]]]
    \o <<Op("load_plugins"), Call(ServerStart)>>

really_start(jar_file) == <<Op("chdir"), [op |-> "load_config", jar_file |-> jar_file]>>

\* the chain of startup(), called by the launcher with or without a jar file
Startup(jar_file) ==
    [stack |-> <<[Frame(1, [kind |-> "startup"]) EXCEPT !.prog = really_start(jar_file)]>>,
     out   |-> <<[t |-> "startup", id |-> 1]>>]

Outcome(name, ok) == [t |-> "step", name |-> name, ok |-> ok]

\* the step is done and really_start goes on
Succeeds(name) == run' = SetTop(Log(run, Outcome(name, TRUE)), Rest(Top(run)))

\* the step raises: really_start is left for the except block of startup()
StepRaises(name) ==
    run' = SetTop(Log(run, Outcome(name, FALSE)), [Top(run) EXCEPT !.prog = except])

\* return self.fatal_error(...): the FatalError is dispatched and really_start
\* returns
ReturnsFatal(name, a, k) ==
    run' = SetTop(Log(run, Outcome(name, FALSE)), [Top(run) EXCEPT !.prog = fatal_error(a, k)])

Untouched == UNCHANGED <<players, started, properties, parked, joined, lastStat, announced>>

NoLoad == UNCHANGED plugins

\* os.chdir(self.server_path)
chdir ==
    /\ Doing("chdir")
    /\ Succeeds("chdir") \/ StepRaises("chdir")
    /\ Untouched
    /\ NoLoad

\* load_config(): its return leaves load_config only, really_start goes on with
\* self.config = None
load_config ==
    /\ Doing("load_config")
    /\ \E config \in Configs :
         LET rest == AfterConfig(config, Head(Top(run).prog).jar_file)
         IN  IF config = "none"
             THEN run' = SetTop(Log(run, Outcome("load_config", FALSE)),
                                [Top(run) EXCEPT !.prog =
                                    fatal_error(<<>>, [reason |-> <<"couldn't find mark2.properties">>])
                                    \o rest])
             ELSE run' = SetTop(Log(run, Outcome("load_config", TRUE)),
                                [Top(run) EXCEPT !.prog = rest])
    /\ Untouched
    /\ NoLoad

\* start_logging(): self.config[...] raises on None, an invalid rotate mode
\* raises ValueError, and opening the log file may fail
start_logging ==
    /\ Doing("start_logging")
    /\ \/ Head(Top(run).prog).config = "ok" /\ Succeeds("start_logging")
       \/ StepRaises("start_logging")
    /\ Untouched
    /\ NoLoad

\* os.chmod of the log and pid files
chmod ==
    /\ Doing("chmod")
    /\ Succeeds("chmod") \/ StepRaises("chmod")
    /\ Untouched
    /\ NoLoad

\* mutant: the FatalError is dispatched but really_start does not return
find_jar_NoReturn ==
    /\ Doing("find_jar")
    /\ \/ Succeeds("find_jar")
       \/ run' = SetTop(Log(run, Outcome("find_jar", FALSE)),
                        [Top(run) EXCEPT !.prog =
                            fatal_error(<<<<"Couldn't find server jar!">>>>, NoKw)
                            \o Tail(Top(run).prog)])
    /\ Untouched
    /\ NoLoad

\* process.find_jar(...)
find_jar ==
    /\ Doing("find_jar")
    /\ \/ Succeeds("find_jar")
       \/ ReturnsFatal("find_jar", <<<<"Couldn't find server jar!">>>>, NoKw)
    /\ Untouched
    /\ NoLoad

\* properties.load_jar(self.jar_file, 'lang/en_US.lang')
load_lang ==
    /\ Doing("load_lang")
    /\ \/ Succeeds("load_lang")
       \/ ReturnsFatal("load_lang", <<>>, [reason |-> <<"couldn't load lang!">>])
       \/ StepRaises("load_lang")
    /\ Untouched
    /\ NoLoad

\* properties.load(... 'server.properties')
load_properties ==
    /\ Doing("load_properties")
    /\ \/ Succeeds("load_properties")
       \/ ReturnsFatal("load_properties", <<>>,
                       [reason |-> <<"couldn't find server.properties">>])
    /\ Untouched
    /\ NoLoad

\* self.services.load(name, ...)
load_service ==
    /\ Doing("load_service")
    /\ LET name == Head(Top(run).prog).name
       IN  \/ Succeeds(name)
           \/ ReturnsFatal(name, <<>>, [reason |-> <<"couldn't load service: ", name>>])
    /\ Untouched
    /\ NoLoad

\* load_plugins()
load_plugins ==
    /\ Doing("load_plugins")
    /\ \/ Succeeds("load_plugins") /\ plugins' = UsualPlugins
       \/ StepRaises("load_plugins") /\ NoLoad
    /\ Untouched

\* the state after construction, startup() just called
StartInit ==
    /\ plugins = {}
    /\ players = {}
    /\ started = FALSE
    /\ properties = "v0"
    /\ run \in {Startup(j) : j \in {NoneVal, "server.jar"}}
    /\ parked = <<>>
    /\ joined = {}
    /\ lastStat = [sent |-> FALSE, players |-> <<>>]
    /\ announced = 0

StartNext ==
    \/ chdir
    \/ load_config
    \/ start_logging
    \/ chmod
    \/ find_jar
    \/ load_lang
    \/ load_properties
    \/ load_service
    \/ load_plugins
    \/ handle_console
    \/ handle_fatal
    \/ CallDispatch
    \/ CallShutdown
    \/ DispatchReturn

StartSpec == StartInit /\ [][StartNext]_vars

----------------------------------------------------------------------------
(* An installation whose only plugin forwards the console and may fail *)

SinkInit ==
    /\ plugins = Forwarder
    /\ players = {}
    /\ started = FALSE
    /\ properties = "v0"
    /\ run = NoChain
    /\ parked = <<>>
    /\ joined = {}
    /\ lastStat = [sent |-> FALSE, players |-> <<>>]
    /\ announced = 0

SinkNext ==
    \/ \E u \in Users : Inject(UserAttach(u))
    \/ \E u \in Users : Inject(UserDetach(u))
    \/ handle_user_attach
    \/ handle_user_detach
    \/ handle_console
    \/ PluginReturns
    \/ handle_dispatch_error
    \/ CallDispatch
    \/ DispatchReturn

SinkSpec == SinkInit /\ [][SinkNext]_vars

\* what the interpreter does on its own once a dispatch was entered
Step ==
    \/ handle_server_output
    \/ handle_console
    \/ handle_fatal
    \/ handle_server_started
    \/ handle_user_attach
    \/ handle_user_detach
    \/ handle_user_input
    \/ handle_player_join
    \/ handle_player_quit
    \/ handle_server_stopped
    \/ handler
    \/ lambda
    \/ CallDispatch
    \/ CallShutdown
    \/ SetStarted
    \/ IfNotHandled
    \/ PluginReturns
    \/ PluginSuspends
    \/ handle_dispatch_error
    \/ DispatchReturn

\* the oldest suspended handler resolves: it completes, fails or times out
ResolveOldest == \E v \in {"true", "false", "raise"} : Resolve(1, v)

\* running code goes on, and the reactor gets to every pending resolution
FairSpec == Spec /\ WF_vars(Step) /\ SF_vars(ResolveOldest)

----------------------------------------------------------------------------
(* Reading a chain's record *)

Chains == {run} \cup Range(parked)

Finished == run.stack = <<>> /\ run.out # <<>>

Is(c, i, what) == c.out[i].t = what

\* the event of dispatch number d of chain c
EventOf(c, d) == c.out[d].ev

Dispatches(c, kind) == {i \in DOMAIN c.out : Is(c, i, "dispatch") /\ c.out[i].ev.kind = kind}

Invokes(c, d) == {i \in DOMAIN c.out : Is(c, i, "invoke") /\ c.out[i].id = d}

Returns(c, d) == {i \in DOMAIN c.out : Is(c, i, "return") /\ c.out[i].id = d}

Results(c, d) == {i \in DOMAIN c.out : Is(c, i, "result") /\ c.out[i].id = d}

Raises(c) == {i \in DOMAIN c.out : Is(c, i, "return") /\ c.out[i].val = "raise"}

Reports(c) == {i \in DOMAIN c.out : Is(c, i, "report")}

PriorityOf(r) == Rank(Registered[r].priority)

----------------------------------------------------------------------------
(* C1 *)

\* C1: in one dispatch, a matching registration of a higher priority (CRITICAL
\* before HIGH before DEFAULT before MONITOR) is invoked strictly before any
\* matching registration of a lower one: when a handler is invoked, every
\* matching registration of a higher priority has been invoked already.
C1_PriorityOrder ==
    \A c \in Chains : \A j \in DOMAIN c.out :
        Is(c, j, "invoke") =>
            \A q \in Matching(EventOf(c, c.out[j].id)) :
                PriorityOf(q) < PriorityOf(c.out[j].cb) =>
                    \E i \in Invokes(c, c.out[j].id) : i < j /\ c.out[i].cb = q

\* a handler registered later but of a higher priority ran first
C1_Witness ==
    \E i, j \in DOMAIN run.out :
        /\ i < j
        /\ Is(run, i, "invoke") /\ Is(run, j, "invoke")
        /\ run.out[i].id = run.out[j].id
        /\ PriorityOf(run.out[i].cb) < PriorityOf(run.out[j].cb)
        /\ run.out[i].cb > run.out[j].cb

----------------------------------------------------------------------------
(* C2 *)

\* C2: a Hook dispatch results in true exactly when one of its handlers returned
\* true (so it is false with no matching handler or with none returning true),
\* and no handler is invoked in that dispatch after one returned true.
C2_HookShortCircuit ==
    \A c \in Chains : \A d \in Dispatches(c, "Hook") :
        /\ \A k \in Results(c, d) :
               (c.out[k].val = "true") <=> (\E i \in Returns(c, d) : c.out[i].val = "true")
        /\ \A k \in Results(c, d) : c.out[k].val \in {"true", "false"}
        /\ \A i \in Returns(c, d) :
               c.out[i].val = "true" => \A j \in Invokes(c, d) : j < i

\* a Hook dispatch ended true while a matching handler was never invoked
C2_Witness ==
    \E d \in Dispatches(run, "Hook") :
        /\ \E k \in Results(run, d) : run.out[k].val = "true"
        /\ Cardinality(Invokes(run, d)) < Cardinality(Matching(EventOf(run, d)))

----------------------------------------------------------------------------
(* C3 *)

\* every dispatch of the chain has returned to its caller
AllReturned(c) ==
    \A d \in DOMAIN c.out : Is(c, d, "dispatch") => Results(c, d) # {}

\* C3: a handler that raises does not stop its dispatch: each raise is followed
\* by exactly one report to the error sink, naming the dispatch and the
\* callback; a dispatch that was not cut short by a Hook handler returning true
\* has invoked every matching registration exactly once when it returns; and
\* the failure does not reach the caller: every dispatch of a chain that has
\* run to its end has returned a result.
C3_RaiseIsolated ==
    /\ \A c \in Chains :
         /\ \A i \in Raises(c) :
                i < Len(c.out) =>
                    /\ Is(c, i + 1, "report")
                    /\ c.out[i + 1].id = c.out[i].id
                    /\ c.out[i + 1].cb = c.out[i].cb
         /\ \A k \in Reports(c) : k > 1 /\ (k - 1) \in Raises(c)
         /\ \A k \in DOMAIN c.out :
                (Is(c, k, "result") /\ c.out[k].val # "true") =>
                    \A q \in Matching(EventOf(c, c.out[k].id)) :
                        Cardinality({i \in Invokes(c, c.out[k].id) : c.out[i].cb = q}) = 1
    /\ Finished => AllReturned(run) /\ Cardinality(Reports(run)) = Cardinality(Raises(run))

\* a handler raised, and a handler ordered after it in the same dispatch ran
C3_Witness ==
    /\ Finished
    /\ \E i \in Raises(run) : \E j \in Invokes(run, run.out[i].id) : j > i

----------------------------------------------------------------------------
(* C4 *)

\* C4: whenever no dispatch is under way, Manager.players is the set of usernames
\* whose PlayerJoin was dispatched and not followed by their PlayerQuit or by a
\* ServerStopped, and the most recent StatPlayers dispatch carried exactly that
\* set (a duplicate join and a quit of an absent user change nothing).
C4_PlayersTracked ==
    run.stack = <<>> =>
        /\ players = joined
        /\ players # {} => lastStat.sent
        /\ lastStat.sent =>
               /\ Range(lastStat.players) = players
               /\ Len(lastStat.players) = Cardinality(players)

\* Alice and Bob were both broadcast as present, and Alice's quit has been handled
C4_Witness ==
    /\ run.stack # <<>>
    /\ EventOf(run, 1) = [kind |-> "PlayerQuit", username |-> "Alice"]
    /\ Range(lastStat.players) = {"Alice", "Bob"}
    /\ players = {"Bob"}
    /\ joined = {"Bob"}

----------------------------------------------------------------------------
(* C5 *)

\* C5: when a ServerStopped dispatch is over, Manager.players is empty and the
\* dispatch has broadcast a StatPlayers event with no players, which is the
\* most recent broadcast.
C5_StoppedClears ==
    (Finished /\ EventOf(run, 1).kind = "ServerStopped") =>
        /\ players = {}
        /\ lastStat = [sent |-> TRUE, players |-> <<>>]
        /\ \E i \in Dispatches(run, "StatPlayers") :
               run.out[i].ev.players = <<>> /\ run.out[i].by = 1

\* players were present and broadcast, and the ServerStopped handler has run
C5_Witness ==
    /\ run.out # <<>>
    /\ EventOf(run, 1).kind = "ServerStopped"
    /\ Invokes(run, 1) # {}
    /\ lastStat.players # <<>>
    /\ players = {}

----------------------------------------------------------------------------
(* C6 *)

FatalLine(e) == <<"fatal error: ">> \o e.reason

\* C6: in a FatalError dispatch, shutdown is initiated only after a Console
\* event carrying the reason was dispatched, and the dispatch does not return
\* before shutdown was initiated.
C6_FatalShutsDown ==
    \A c \in Chains : \A d \in Dispatches(c, "FatalError") :
        /\ \A s \in DOMAIN c.out :
               (Is(c, s, "shutdown") /\ c.out[s].id = d) =>
                   \E i \in Dispatches(c, "Console") :
                       /\ i < s
                       /\ c.out[i].by = d
                       /\ c.out[i].ev.line = FatalLine(EventOf(c, d))
        /\ \A k \in Results(c, d) :
               \E s \in DOMAIN c.out :
                   Is(c, s, "shutdown") /\ c.out[s].id = d /\ d < s /\ s < k

\* a FatalError dispatch in which an earlier handler raised is over, shut down
C6_Witness ==
    /\ Finished
    /\ EventOf(run, 1).kind = "FatalError"
    /\ Reports(run) # {}
    /\ \E s \in DOMAIN run.out : Is(run, s, "shutdown")

----------------------------------------------------------------------------
(* C7 *)

IsCommand(c) ==
    /\ c.out # <<>>
    /\ EventOf(c, 1).kind = "UserInput"
    /\ StartsWith(EventOf(c, 1).line, "~")

UnknownLine == <<"unknown command.">>

\* C7: a UserInput whose line begins with "~" never produces a ServerInput and
\* produces no Hook but one with its own line; when its dispatch is over exactly
\* one Hook was dispatched, and if that Hook resulted in false a Console event
\* "unknown command." followed.
C7_CommandInput ==
    \A c \in Chains : IsCommand(c) =>
        /\ Dispatches(c, "ServerInput") = {}
        /\ Cardinality(Dispatches(c, "Hook")) <= 1
        /\ \A d \in Dispatches(c, "Hook") :
               /\ EventOf(c, d).line = EventOf(c, 1).line
               /\ \A k \in Results(c, d) :
                      (c.out[k].val = "false" /\ c.stack = <<>>) =>
                          \E i \in Dispatches(c, "Console") :
                              i > k /\ c.out[i].ev.line = UnknownLine
        /\ c.stack = <<>> => Cardinality(Dispatches(c, "Hook")) = 1

\* "~c", which no Hook registration matches, was answered "unknown command."
C7_Witness ==
    /\ Finished
    /\ IsCommand(run)
    /\ \E d \in Dispatches(run, "Hook") : Matching(EventOf(run, d)) = {}
    /\ \E i \in Dispatches(run, "Console") : run.out[i].ev.line = UnknownLine

----------------------------------------------------------------------------
(* C8 *)

DeathMatches(data) == {i \in DOMAIN deaths : ReMatch(deaths[i].pattern, data)}

FirstOf(S) == CHOOSE i \in S : \A j \in S : i <= j

\* C8: a ServerOutput dispatch never dispatches more than one PlayerDeath; when
\* it is over it has dispatched none if no entry of the death table matches the
\* line, and otherwise exactly one, with the format and the named groups of the
\* first matching entry.
C8_FirstDeathOnly ==
    \A c \in Chains : (c.out # <<>> /\ EventOf(c, 1).kind = "ServerOutput") =>
        LET data == EventOf(c, 1).data
            M == DeathMatches(data)
            D == Dispatches(c, "PlayerDeath")
        IN  /\ Cardinality(D) <= 1
            /\ M = {} => D = {}
            /\ (M # {} /\ c.stack = <<>>) => Cardinality(D) = 1
            /\ \A d \in D :
                   /\ EventOf(c, d).format = deaths[FirstOf(M)].format
                   /\ EventOf(c, d).victim = data[deaths[FirstOf(M)].pattern.grp.victim]
                   /\ EventOf(c, d).cause = NoneVal

\* a line that two entries match produced the PlayerDeath of the first entry
C8_Witness ==
    /\ Finished
    /\ EventOf(run, 1).kind = "ServerOutput"
    /\ Cardinality(DeathMatches(EventOf(run, 1).data)) > 1
    /\ Cardinality(Dispatches(run, "PlayerDeath")) = 1

----------------------------------------------------------------------------
(* C9 *)

StartedOver == Finished /\ EventOf(run, 1).kind = "ServerStarted"

Loads(c) == {i \in DOMAIN c.out : Is(c, i, "load")}

----------------------------------------------------------------------------
(* C10 *)

\* C10: in a Hook dispatch a handler is started only when every handler started
\* before it has resolved, suspended ones included, and none of them resolved to
\* true; this holds of the running chain and of the chains parked while other
\* dispatches run.
C10_StrictOrder ==
    \A c \in Chains : \A d \in Dispatches(c, "Hook") :
        \A i, j \in Invokes(c, d) :
            i < j =>
                \E k \in Returns(c, d) :
                    /\ i < k /\ k < j
                    /\ c.out[k].cb = c.out[i].cb
                    /\ c.out[k].val # "true"

\* a Hook handler suspended, another dispatch ran to its end meanwhile, the
\* handler resolved, and only then the next handler of the Hook was started
C10_Witness ==
    \E d \in Dispatches(run, "Hook") :
        \E i, m, j \in DOMAIN run.out :
            /\ i < m /\ m < j
            /\ Is(run, i, "suspend") /\ run.out[i].id = d
            /\ Is(run, m, "resume") /\ run.out[m].meanwhile
            /\ j \in Invokes(run, d)

----------------------------------------------------------------------------
(* C11 *)

\* the handler invoked at position i of chain c has run to completion or failure
\* by position k: a plugin handler has resolved, a built-in handler's dispatch
\* went on after it
Completed(c, i, k) ==
    \/ \E r \in Returns(c, c.out[i].id) : i < r /\ r <= k /\ c.out[r].cb = c.out[i].cb
    \/ /\ PluginOutcomes(Registered[c.out[i].cb].callback) = {}
       /\ \E n \in DOMAIN c.out :
              /\ i < n /\ n <= k
              /\ Is(c, n, "invoke") \/ Is(c, n, "result")
              /\ c.out[n].id = c.out[i].id

\* when a dispatch of a non-Hook event returns, every matching registration was
\* invoked exactly once and has run to completion or failure
AllInvoked(c) ==
    \A k \in DOMAIN c.out :
        (Is(c, k, "result") /\ EventOf(c, c.out[k].id).kind # "Hook") =>
            \A q \in Matching(EventOf(c, c.out[k].id)) :
                /\ Cardinality({i \in Invokes(c, c.out[k].id) : c.out[i].cb = q}) = 1
                /\ \A i \in Invokes(c, c.out[k].id) : Completed(c, i, k)

\* a chain entered by a UserInput is suspended on a Hook handler
InputParked == \E i \in DOMAIN parked : EventOf(parked[i], 1).kind = "UserInput"

\* a chain entered by a UserInput was suspended, was resumed and is at its end
InputResumed ==
    /\ Finished
    /\ EventOf(run, 1).kind = "UserInput"
    /\ \E m \in DOMAIN run.out : Is(run, m, "resume")

----------------------------------------------------------------------------
(* C12 *)

IsComment(c) ==
    /\ c.out # <<>>
    /\ EventOf(c, 1).kind = "UserInput"
    /\ StartsWith(EventOf(c, 1).line, "#")

\* C12: a UserInput whose line begins with "#" produces no Hook event and no
\* ServerInput event, neither while it is handled nor afterwards.
C12_CommentDropped ==
    \A c \in Chains : IsComment(c) =>
        /\ Dispatches(c, "Hook") = {}
        /\ Dispatches(c, "ServerInput") = {}

\* a comment line was handled to its end: it was echoed to the console only
C12_Witness ==
    /\ Finished
    /\ IsComment(run)
    /\ \E i \in Invokes(run, 1) :
           Registered[run.out[i].cb].callback = "handle_user_input"
    /\ Dispatches(run, "Console") # {}

----------------------------------------------------------------------------
(* C13 *)

IsPlainInput(c) ==
    /\ c.out # <<>>
    /\ EventOf(c, 1).kind = "UserInput"
    /\ ~StartsWith(EventOf(c, 1).line, "~")
    /\ ~StartsWith(EventOf(c, 1).line, "#")

\* C13: a UserInput whose line begins with neither "~" nor "#" produces no Hook
\* event and never more than one ServerInput event; every ServerInput it
\* produces carries the whole line, newlines included, with parse_colors true;
\* and when its dispatch is over it has produced exactly one.
C13_PlainInput ==
    \A c \in Chains : IsPlainInput(c) =>
        /\ Dispatches(c, "Hook") = {}
        /\ Cardinality(Dispatches(c, "ServerInput")) <= 1
        /\ \A d \in Dispatches(c, "ServerInput") :
               /\ EventOf(c, d).line = EventOf(c, 1).line
               /\ EventOf(c, d).parse_colors = TRUE
        /\ c.stack = <<>> => Cardinality(Dispatches(c, "ServerInput")) = 1

\* a two-line input was echoed as two Console events and sent on as one
\* ServerInput
C13_Witness ==
    /\ Finished
    /\ IsPlainInput(run)
    /\ Len(Split(EventOf(run, 1).line)) = 2
    /\ Cardinality(Dispatches(run, "ServerInput")) = 1
    /\ Cardinality(Dispatches(run, "Console")) = 2

----------------------------------------------------------------------------
(* C14 *)

\* the Console events of source "server" dispatched from inside dispatch d
ServerConsoles(c, d) ==
    {i \in Dispatches(c, "Console") :
        /\ c.out[i].by = d
        /\ "source" \in DOMAIN c.out[i].ev.kw
        /\ c.out[i].ev.kw.source = "server"}

\* C14: a ServerOutput dispatch, whatever its line, never produces more than
\* one Console event of source "server"; the one it produces carries the line,
\* time, level and data of the ServerOutput; and when the dispatch has returned
\* it has produced exactly one.
C14_OutputToConsole ==
    \A c \in Chains : \A d \in Dispatches(c, "ServerOutput") :
        /\ Cardinality(ServerConsoles(c, d)) <= 1
        /\ \A i \in ServerConsoles(c, d) :
               /\ c.out[i].ev.line = EventOf(c, d).line
               /\ c.out[i].ev.kw.time = EventOf(c, d).time
               /\ c.out[i].ev.kw.level = EventOf(c, d).level
               /\ c.out[i].ev.kw.data = EventOf(c, d).data
        /\ Results(c, d) # {} => Cardinality(ServerConsoles(c, d)) = 1

\* a line that the join classifier also matched went to the console
C14_Witness ==
    /\ Finished
    /\ EventOf(run, 1).kind = "ServerOutput"
    /\ Dispatches(run, "PlayerJoin") # {}
    /\ ServerConsoles(run, 1) # {}

----------------------------------------------------------------------------
(* C15 *)

PlayerKinds == {"PlayerJoin", "PlayerQuit", "ServerStopped"}

PlayerHandlers == {"handle_player_join", "handle_player_quit", "handle_server_stopped"}

\* the dispatcher is calling one of the three handlers, for an event of its kind
InPlayerHandler ==
    /\ \E cb \in PlayerHandlers : Calls(cb)
    /\ Top(run).ev.kind \in PlayerKinds

\* C15: every step that changes Manager.players is the call of
\* handle_player_join, handle_player_quit or handle_server_stopped for a
\* PlayerJoin, PlayerQuit or ServerStopped event; handling an event of any other
\* kind, and every other step of the manager, leaves players as it was.
C15_PlayersOwners == [][players' # players => InPlayerHandler]_vars

\* with both players joined, a FatalError was handled to its end and both are
\* still there
C15_Witness ==
    /\ Finished
    /\ EventOf(run, 1).kind = "FatalError"
    /\ \E s \in DOMAIN run.out : Is(run, s, "shutdown")
    /\ players = {Str(u) : u \in Usernames}

----------------------------------------------------------------------------
(* C16 *)

\* the event type the claim gives to each configured pattern
ClassifierType == [join |-> "PlayerJoin", quit |-> "PlayerQuit", chat |-> "PlayerChat"]

\* the registration made for mark2.regex.<key>
Classifier(key) ==
    CHOOSE r \in DOMAIN Registered :
        Registered[r].callback = "lambda" /\ Registered[r].pattern = ConfigRegex[key]

\* the events of kind `kind` dispatched from inside dispatch d
DispatchedBy(c, d, kind) == {j \in Dispatches(c, kind) : c.out[j].by = d}

\* C16: the classifier registered for the join, quit or chat pattern is invoked
\* only in a ServerOutput dispatch whose text matches that pattern; what it
\* dispatches next is an event of its own type (join: PlayerJoin, quit:
\* PlayerQuit, chat: PlayerChat) whose fields are the named groups of that
\* match; and when the ServerOutput dispatch has returned, exactly one event of
\* that type was dispatched from it.
C16_Classifiers ==
    \A c \in Chains : \A key \in DOMAIN ClassifierType : \A i \in DOMAIN c.out :
        (Is(c, i, "invoke") /\ c.out[i].cb = Classifier(key)) =>
            LET d == c.out[i].id
                e == EventOf(c, d)
            IN  /\ e.kind = "ServerOutput"
                /\ ReMatch(ConfigRegex[key], e.data)
                /\ i < Len(c.out) =>
                       /\ Is(c, i + 1, "dispatch")
                       /\ c.out[i + 1].by = d
                       /\ c.out[i + 1].ev =
                              [kind |-> ClassifierType[key]]
                                  @@ GroupDict(ConfigRegex[key], e.data)
                /\ Results(c, d) # {} =>
                       Cardinality(DispatchedBy(c, d, ClassifierType[key])) = 1

\* a chat line was classified: a PlayerChat with its username and message, and
\* neither a PlayerJoin nor a PlayerQuit
C16_Witness ==
    /\ Finished
    /\ EventOf(run, 1).kind = "ServerOutput"
    /\ \E j \in DispatchedBy(run, 1, "PlayerChat") :
           /\ run.out[j].ev.username = EventOf(run, 1).data[2]
           /\ run.out[j].ev.message = EventOf(run, 1).data[3]
    /\ DispatchedBy(run, 1, "PlayerJoin") = {}
    /\ DispatchedBy(run, 1, "PlayerQuit") = {}

----------------------------------------------------------------------------
(* C17 *)

\* C17: within one dispatch, of two invoked registrations of the same priority
\* the one registered first is invoked first.
C17_RegistrationOrder ==
    \A c \in Chains : \A i, j \in DOMAIN c.out :
        ( /\ i < j
          /\ Is(c, i, "invoke") /\ Is(c, j, "invoke")
          /\ c.out[i].id = c.out[j].id
          /\ PriorityOf(c.out[i].cb) = PriorityOf(c.out[j].cb) )
            => c.out[i].cb < c.out[j].cb

\* a join line went to the death handler and then to the join classifier, both
\* registered on ServerOutput at the default priority
C17_Witness ==
    /\ Finished
    /\ EventOf(run, 1).kind = "ServerOutput"
    /\ \E i, j \in Invokes(run, 1) :
           /\ i < j
           /\ Registered[run.out[i].cb].callback = "handler"
           /\ run.out[j].cb = Classifier("join")
           /\ PriorityOf(run.out[i].cb) = PriorityOf(run.out[j].cb)

----------------------------------------------------------------------------
(* C18 *)

\* the lines of the Console events with keywords k that dispatch d has dispatched
\* at the entries lo+1 .. n of the chain's record, in order
RECURSIVE Emitted(_, _, _, _, _)
Emitted(c, d, k, lo, n) ==
    IF n <= lo THEN <<>>
    ELSE IF /\ Is(c, n, "dispatch")
            /\ c.out[n].ev.kind = "Console"
            /\ c.out[n].by = d
            /\ c.out[n].ev.kw = k
         THEN Append(Emitted(c, d, k, lo, n - 1), c.out[n].ev.line)
         ELSE Emitted(c, d, k, lo, n - 1)

RECURSIVE JoinLines(_)
JoinLines(ls) ==
    IF ls = <<>> THEN <<>>
    ELSE IF Len(ls) = 1 THEN ls[1]
    ELSE ls[1] \o <<NL>> \o JoinLines(Tail(ls))

IsPrefix(a, b) == Len(a) <= Len(b) /\ SubSeq(b, 1, Len(a)) = a

Newlines(s) == Cardinality({i \in DOMAIN s : s[i] = NL})

SingleLine(s) == Newlines(s) = 0

\* the call of the handler or of the error sink that entry i records has come to
\* its end at entry n: the dispatch went on to its next handler, to the error
\* sink or to its result
EndsAt(c, i, n) ==
    /\ i < n
    /\ Is(c, n, "invoke") \/ Is(c, n, "report") \/ Is(c, n, "result")
    /\ c.out[n].id = c.out[i].id

\* the last entry of the call that entry i records
EndOf(c, i) ==
    IF \E n \in DOMAIN c.out : EndsAt(c, i, n)
    THEN (CHOOSE n \in DOMAIN c.out :
              EndsAt(c, i, n) /\ \A m \in DOMAIN c.out : EndsAt(c, i, m) => n <= m) - 1
    ELSE Len(c.out)

\* the Console events with keywords k emitted by the call that entry i records
\* are the first segments of `text`, in order, and all of them when the call is
\* over
EmitsSegments(c, i, k, text) ==
    LET ls == Emitted(c, c.out[i].id, k, i, EndOf(c, i))
    IN  /\ \A j \in DOMAIN ls : SingleLine(ls[j])
        /\ ls # <<>> => IsPrefix(JoinLines(ls), text)
        /\ (\E n \in DOMAIN c.out : EndsAt(c, i, n)) =>
               /\ JoinLines(ls) = text
               /\ Len(ls) = Newlines(text) + 1

\* C18: a text with n newlines passed to Manager.console is dispatched as n+1
\* Console events, one per segment and in order: the echo of a UserInput line
\* and the report of the error sink are checked against their texts; every
\* Console event a handler dispatches holds a single line; and the log sink
\* writes one record, holding a single line, per Console event it is given.
C18_ConsoleSplits ==
    \A c \in Chains :
        /\ \A d \in Dispatches(c, "UserInput") :
               \A i \in Invokes(c, d) :
                   EmitsSegments(c, i, [user |-> EventOf(c, d).user, source |-> "user"],
                                 EventOf(c, d).line)
        /\ \A r \in DOMAIN c.out :
               Is(c, r, "report") =>
                   EmitsSegments(c, r, NoKw,
                                 ErrorText(EventOf(c, c.out[r].id),
                                           Registered[c.out[r].cb].callback))
        /\ \A j \in Dispatches(c, "Console") :
               c.out[j].by # 0 => SingleLine(c.out[j].ev.line)
        /\ \A j \in DOMAIN c.out : Is(c, j, "log") => SingleLine(c.out[j].line)
        /\ Cardinality({j \in DOMAIN c.out : Is(c, j, "log")})
               = Cardinality({j \in DOMAIN c.out :
                      /\ Is(c, j, "invoke")
                      /\ Registered[c.out[j].cb].callback = "handle_console"})

\* a Hook handler raised and the report of the error sink, a text with four
\* newlines, went to the console as five events and to the log as five records
C18_Witness ==
    /\ Finished
    /\ \E r \in DOMAIN run.out :
           /\ Is(run, r, "report")
           /\ Newlines(ErrorText(EventOf(run, run.out[r].id),
                                 Registered[run.out[r].cb].callback)) = 4
           /\ Len(Emitted(run, run.out[r].id, NoKw, r, EndOf(run, r))) = 5
    /\ Cardinality({j \in DOMAIN run.out : Is(run, j, "log")}) >= 5

----------------------------------------------------------------------------
(* C19 *)

\* the steps of really_start that can fail
StartupSteps ==
    {"chdir", "load_config", "start_logging", "chmod", "load_lang", "load_properties",
     "load_plugins"} \cup Range(Services)

\* a startup step has failed: it raised, or a FatalError was dispatched for it
StartupFailed(c) ==
    \/ \E i \in DOMAIN c.out : Is(c, i, "step") /\ ~c.out[i].ok
    \/ \E i \in Dispatches(c, "FatalError") : c.out[i].by = 1

ShutdownsIn(c) == {i \in DOMAIN c.out : Is(c, i, "shutdown")}

\* C19: once a startup step has failed, by a FatalError or by an exception in
\* really_start, no ServerStart is dispatched, and when startup() has returned
\* shutdown was initiated; ServerStart is never dispatched twice, and when it is
\* dispatched every startup step has succeeded.
C19_StartupFails ==
    /\ run.out # <<>>
    /\ run.out[1].t = "startup"
    /\ Cardinality(Dispatches(run, "ServerStart")) <= 1
    /\ StartupFailed(run) =>
           /\ Dispatches(run, "ServerStart") = {}
           /\ run.stack = <<>> => ShutdownsIn(run) # {}
    /\ \A d \in Dispatches(run, "ServerStart") :
           \A name \in StartupSteps :
               \E i \in 1..d : Is(run, i, "step") /\ run.out[i].name = name /\ run.out[i].ok

\* mark2.properties was not found: the FatalError was dispatched, really_start
\* went on and raised in start_logging, and startup() is over with shutdown
\* initiated by handle_fatal and by the except block
C19_Witness ==
    /\ run.stack = <<>>
    /\ \E i \in Dispatches(run, "FatalError") : run.out[i].ev.reason = <<NoneVal>>
    /\ \E i \in DOMAIN run.out :
           Is(run, i, "step") /\ run.out[i].name = "start_logging" /\ ~run.out[i].ok
    /\ Cardinality(ShutdownsIn(run)) = 2
    /\ Dispatches(run, "ServerStart") = {}

----------------------------------------------------------------------------
(* C20 *)

\* a handler failed on a Console event, the error sink reported the failure by
\* dispatching Console events, and the same handler failed again on one of
\* them: the chain is where it was, one level deeper
SinkLoop(c) ==
    \E r1, r2 \in Reports(c) :
        /\ r1 < r2
        /\ c.out[r1].cb = c.out[r2].cb
        /\ EventOf(c, c.out[r1].id).kind = "Console"
        /\ EventOf(c, c.out[r2].id).kind = "Console"
        /\ c.out[r2].id > r1
        /\ c.out[c.out[r2].id].by = c.out[r1].id

\* C20: the cascade of an injected dispatch is finite, also when a handler
\* raises and the error sink reports the failure by Console events: the report
\* of a failure never makes the handler that failed fail on that report again.
C20_CascadeEnds == \A c \in Chains : ~SinkLoop(c)

====
